---------------------------- MODULE Spec2Model ----------------------------
(***************************************************************************)
(* A model of the `can` crate's addressing layer: identifiers with their   *)
(* flags (identifier/id.rs, constants.rs), the identifier filter           *)
(* (identifier/filter.rs), the OBD-II addresses (identifier/obd.rs) and    *)
(* the frame kinds (frame.rs).                                             *)
(*                                                                         *)
(* A u32 is kept as a record [hi, lo]: hi is bits 31..29 (the three        *)
(* IdentifierFlags bits), lo is bits 28..0 (the EFF_MASK part), so the     *)
(* word's value is hi * 2^29 + lo.  Every bitwise operation of the source  *)
(* is computed bit by bit on both parts.  Raw identifier values (u16 and   *)
(* u32 arguments) are naturals.                                            *)
(***************************************************************************)
EXTENDS Naturals, FiniteSets, Sequences

VARIABLES
    id,      \* Option<Id>: the identifier the caller last built
    call,    \* the last operation called and its arguments
    filter,  \* Option<Filter>: the filter the caller built
    ctor,    \* the constructor `filter` came from
    other,   \* Option<Id>: the `end` argument handed to Filter::range
    probe,   \* Option<(Id, bool)>: the argument and result of Filter::matches
    addr,    \* Option<diagnostic address>: the OBD address the caller holds
    toggles  \* the allow_*/disallow_* calls made on `filter`, oldest first

vars == <<id, call, filter, ctor, other, probe, addr, toggles>>

---------------------------------------------------------------------------
(* Bounds of the model. *)

\* The small raw identifier values the caller tries are 0..MaxSmallRaw.
MaxSmallRaw == 3

---------------------------------------------------------------------------
(* Program constants. *)

\* constants.rs: pub const EFF_MASK: u32 = 0x1fffffff
EFF_MASK == 536870911

\* id.rs: StandardId::MAX.identifier = 0x7FF
StandardId_MAX_raw == 2047

\* id.rs: ExtendedId::MAX.identifier = 0x1FFF_FFFF
ExtendedId_MAX_raw == 536870911

\* The largest u16, the type of StandardId::new's argument.
U16_MAX == 65535

\* ExtendedId::as_standard_id shifts right by 18 bits: 2^18.
Shift18 == 262144

---------------------------------------------------------------------------
(* 32-bit words. *)

TwoPow29 == EFF_MASK + 1

W(h, l) == [hi |-> h, lo |-> l]

\* A natural below 2^32 as a word (`as u32`).
ToU32(n) == W((n \div TwoPow29) % 8, n % TwoPow29)

RECURSIVE And(_, _)
And(a, b) ==
    IF a = 0 \/ b = 0 THEN 0
    ELSE (a % 2) * (b % 2) + 2 * And(a \div 2, b \div 2)

Or(a, b) == a + b - And(a, b)

\* u32 `&`, `|`, `!`
WAnd(x, y) == W(And(x.hi, y.hi), And(x.lo, y.lo))
WOr(x, y) == W(Or(x.hi, y.hi), Or(x.lo, y.lo))
WNot(x) == W(7 - x.hi, EFF_MASK - x.lo)

\* u32 `-`, with the borrow carried from the low 29 bits into the high 3.
WSub(x, y) ==
    LET borrow == IF x.lo < y.lo THEN 1 ELSE 0
    IN  W((x.hi + 8 - y.hi - borrow) % 8, x.lo + borrow * TwoPow29 - y.lo)

---------------------------------------------------------------------------
(* constants.rs: IdentifierFlags. *)

EXTENDED == W(4, 0)
REMOTE == W(2, 0)
ERROR == W(1, 0)

Flags_empty == W(0, 0)
Flags_all == WOr(EXTENDED, WOr(REMOTE, ERROR))
Flags_union(a, b) == WOr(a, b)
Flags_difference(a, b) == WAnd(a, WNot(b))
Flags_contains(a, b) == WAnd(a, b) = b
Flags_intersects(a, b) == WAnd(a, b) # Flags_empty

AllFlags == {W(h, 0) : h \in 0..7}

---------------------------------------------------------------------------
(* Option *)

None == [some |-> FALSE]
Some(v) == [some |-> TRUE, val |-> v]

---------------------------------------------------------------------------
(* id.rs: StandardId *)

StandardId_ZERO == [identifier |-> 0, flags |-> Flags_empty]
StandardId_MAX == [identifier |-> StandardId_MAX_raw, flags |-> Flags_empty]

StandardId_as_raw(self) == self.identifier

StandardId_new(identifier) ==
    IF identifier <= StandardId_as_raw(StandardId_MAX)
    THEN Some([identifier |-> identifier, flags |-> Flags_empty])
    ELSE None

StandardId_with_flags(identifier, flags) ==
    IF identifier <= StandardId_as_raw(StandardId_MAX)
    THEN Some([identifier |-> identifier,
               flags |-> Flags_difference(flags, EXTENDED)])
    ELSE None

StandardId_set_flags(self, flags) ==
    [identifier |-> self.identifier, flags |-> flags]

\* The caller's closures FnOnce(IdentifierFlags) -> IdentifierFlags.
FlagFns ==
    {[kind |-> k, arg |-> g] : k \in {"union", "difference", "const"}, g \in AllFlags}

ApplyFn(f, flags) ==
    CASE f.kind = "union" -> Flags_union(flags, f.arg)
      [] f.kind = "difference" -> Flags_difference(flags, f.arg)
      [] f.kind = "const" -> f.arg

StandardId_map_flags(self, f) ==
    [identifier |-> self.identifier, flags |-> ApplyFn(f, self.flags)]

StandardId_as_extended_id(self) ==
    [identifier |-> self.identifier, flags |-> Flags_union(self.flags, EXTENDED)]

---------------------------------------------------------------------------
(* id.rs: ExtendedId *)

ExtendedId_MAX == [identifier |-> ExtendedId_MAX_raw, flags |-> EXTENDED]

ExtendedId_as_raw(self) == self.identifier

\* A faulty variant of ExtendedId::new: `<` where the source has `<=`.
ExtendedId_new_Strict(identifier) ==
    IF identifier < ExtendedId_MAX.identifier
    THEN Some([identifier |-> identifier, flags |-> EXTENDED])
    ELSE None

ExtendedId_new(identifier) ==
    IF identifier <= ExtendedId_MAX.identifier
    THEN Some([identifier |-> identifier, flags |-> EXTENDED])
    ELSE None

ExtendedId_with_flags(identifier, flags) ==
    IF identifier <= ExtendedId_as_raw(ExtendedId_MAX)
    THEN Some([identifier |-> identifier, flags |-> Flags_union(flags, EXTENDED)])
    ELSE None

\* A faulty variant of ExtendedId::set_flags: the flags stored as given.
ExtendedId_set_flags_AsGiven(self, flags) ==
    [identifier |-> self.identifier, flags |-> flags]

ExtendedId_set_flags(self, flags) ==
    [identifier |-> self.identifier, flags |-> Flags_union(flags, EXTENDED)]

ExtendedId_map_flags(self, f) ==
    [identifier |-> self.identifier,
     flags |-> Flags_union(ApplyFn(f, self.flags), EXTENDED)]

ExtendedId_as_standard_id(self) ==
    [identifier |-> (self.identifier \div Shift18) % (U16_MAX + 1),
     flags |-> Flags_difference(self.flags, EXTENDED)]

---------------------------------------------------------------------------
(* id.rs: Id *)

Id_Standard(sid) == [variant |-> "Standard", v |-> sid]
Id_Extended(eid) == [variant |-> "Extended", v |-> eid]

Id_as_raw(self) ==
    IF self.variant = "Standard"
    THEN StandardId_as_raw(self.v)
    ELSE ExtendedId_as_raw(self.v)

Id_flags(self) == self.v.flags

Id_set_flags(self, flags) ==
    IF self.variant = "Standard"
    THEN Id_Standard(StandardId_set_flags(self.v, flags))
    ELSE Id_Extended(ExtendedId_set_flags(self.v, flags))

Id_map_flags(self, f) ==
    IF self.variant = "Standard"
    THEN Id_Standard(StandardId_map_flags(self.v, f))
    ELSE Id_Extended(ExtendedId_map_flags(self.v, f))

\* Option<StandardId> / Option<ExtendedId> into Option<Id> (From<..> for Id).
FromStandardId(opt) == IF opt.some THEN Some(Id_Standard(opt.val)) ELSE None
FromExtendedId(opt) == IF opt.some THEN Some(Id_Extended(opt.val)) ELSE None

---------------------------------------------------------------------------
(* filter.rs: Mask and Filter *)

Mask_ALL == W(7, EFF_MASK)

Filter_from_identity(i) ==
    [id |-> i, mask |-> WOr(ToU32(EFF_MASK), Id_flags(i))]

\* A faulty variant of Filter::range: the delta taken off EFF_MASK, not Mask::ALL.
Filter_range_FromEff(start, end) ==
    LET pair == IF Id_as_raw(start) > Id_as_raw(end)
                THEN <<end, Id_as_raw(start) - Id_as_raw(end)>>
                ELSE <<start, Id_as_raw(end) - Id_as_raw(start)>>
    IN  [id |-> pair[1], mask |-> WSub(ToU32(EFF_MASK), ToU32(pair[2]))]

Filter_range(start, end) ==
    LET pair == IF Id_as_raw(start) > Id_as_raw(end)
                THEN <<end, Id_as_raw(start) - Id_as_raw(end)>>
                ELSE <<start, Id_as_raw(end) - Id_as_raw(start)>>
    IN  [id |-> pair[1], mask |-> WSub(Mask_ALL, ToU32(pair[2]))]

\* A faulty variant of Filter::none: the identifier without set_flags(all()).
Filter_none_Unflagged ==
    [id |-> Id_Extended(ExtendedId_MAX), mask |-> Mask_ALL]

Filter_none ==
    [id |-> Id_set_flags(Id_Extended(ExtendedId_MAX), Flags_all), mask |-> Mask_ALL]

\* A faulty variant of Filter::any: Mask::ALL where the source has Mask(0).
Filter_any_AllMask ==
    [id |-> Id_Standard(StandardId_ZERO), mask |-> Mask_ALL]

Filter_any ==
    [id |-> Id_Standard(StandardId_ZERO), mask |-> W(0, 0)]

Filter_matches(self, i) ==
    LET self_id == WOr(ToU32(Id_as_raw(self.id)), Id_flags(self.id))
        other_id == WOr(ToU32(Id_as_raw(i)), Id_flags(i))
    IN  WAnd(other_id, self.mask) = WAnd(self_id, self.mask)

---------------------------------------------------------------------------
(* The caller's inputs. *)

SmallRaws == 0..MaxSmallRaw

\* u16 arguments tried with StandardId::new / with_flags.
StandardInputs == SmallRaws \cup {StandardId_MAX_raw, StandardId_MAX_raw + 1, U16_MAX}

\* u32 arguments tried with ExtendedId::new / with_flags.
ExtendedInputs ==
    SmallRaws \cup {ExtendedId_MAX_raw, ExtendedId_MAX_raw + 1, 2 * TwoPow29}

\* Every Id the identifier operations below can produce from those inputs.
StandardIds ==
    {Id_Standard(StandardId_set_flags(StandardId_new(v).val, f)) :
        v \in {u \in StandardInputs : StandardId_new(u).some}, f \in AllFlags}

ExtendedIds ==
    {Id_Extended(ExtendedId_with_flags(v, f).val) :
        v \in {u \in ExtendedInputs \cup {StandardId_MAX_raw} :
                  ExtendedId_with_flags(u, Flags_empty).some},
        f \in AllFlags}

Ids == StandardIds \cup ExtendedIds

---------------------------------------------------------------------------
(* The state machine: one action per public operation. *)

Call(op, v, f) == [op |-> op, v |-> v, f |-> f]

Init ==
    /\ id = None
    /\ call = Call("start", 0, Flags_empty)
    /\ filter = None
    /\ ctor = "-"
    /\ other = None
    /\ probe = None
    /\ addr = None
    /\ toggles = <<>>

Building == filter = None

DoStandardNew(v) ==
    /\ Building
    /\ id' = FromStandardId(StandardId_new(v))
    /\ call' = Call("StandardId::new", v, Flags_empty)
    /\ UNCHANGED <<filter, ctor, other, probe, addr, toggles>>

DoStandardWithFlags(v, f) ==
    /\ Building
    /\ id' = FromStandardId(StandardId_with_flags(v, f))
    /\ call' = Call("StandardId::with_flags", v, f)
    /\ UNCHANGED <<filter, ctor, other, probe, addr, toggles>>

DoExtendedNew(v) ==
    /\ Building
    /\ id' = FromExtendedId(ExtendedId_new(v))
    /\ call' = Call("ExtendedId::new", v, Flags_empty)
    /\ UNCHANGED <<filter, ctor, other, probe, addr, toggles>>

DoExtendedWithFlags(v, f) ==
    /\ Building
    /\ id' = FromExtendedId(ExtendedId_with_flags(v, f))
    /\ call' = Call("ExtendedId::with_flags", v, f)
    /\ UNCHANGED <<filter, ctor, other, probe, addr, toggles>>

DoSetFlags(f) ==
    /\ Building
    /\ id.some
    /\ id' = Some(Id_set_flags(id.val, f))
    /\ call' = Call("set_flags", 0, f)
    /\ UNCHANGED <<filter, ctor, other, probe, addr, toggles>>

DoMapFlags(fn) ==
    /\ Building
    /\ id.some
    /\ id' = Some(Id_map_flags(id.val, fn))
    /\ call' = Call("map_flags", 0, fn)
    /\ UNCHANGED <<filter, ctor, other, probe, addr, toggles>>

DoAsExtendedId ==
    /\ Building
    /\ id.some
    /\ id.val.variant = "Standard"
    /\ id' = Some(Id_Extended(StandardId_as_extended_id(id.val.v)))
    /\ call' = Call("as_extended_id", 0, Flags_empty)
    /\ UNCHANGED <<filter, ctor, other, probe, addr, toggles>>

DoAsStandardId ==
    /\ Building
    /\ id.some
    /\ id.val.variant = "Extended"
    /\ id' = Some(Id_Standard(ExtendedId_as_standard_id(id.val.v)))
    /\ call' = Call("as_standard_id", 0, Flags_empty)
    /\ UNCHANGED <<filter, ctor, other, probe, addr, toggles>>

Built(name, f, end) ==
    /\ Building
    /\ filter' = Some(f)
    /\ ctor' = name
    /\ other' = end
    /\ call' = Call(name, 0, Flags_empty)
    /\ UNCHANGED <<id, probe, addr, toggles>>

DoFilterNone == Built("Filter::none", Filter_none, None)

DoFilterAny == Built("Filter::any", Filter_any, None)

DoFilterFromIdentity ==
    /\ id.some
    /\ Built("Filter::from_identity", Filter_from_identity(id.val), None)

\* Filter::range(id, end): the first argument is the identifier just built.
DoFilterRange(end) ==
    /\ id.some
    /\ Built("Filter::range", Filter_range(id.val, end), Some(end))

DoMatches(x) ==
    /\ filter.some
    /\ ~probe.some
    /\ probe' = Some([x |-> x, matched |-> Filter_matches(filter.val, x)])
    /\ call' = Call("Filter::matches", 0, Flags_empty)
    /\ UNCHANGED <<id, filter, ctor, other, addr, toggles>>

Next ==
    \/ \E v \in StandardInputs : DoStandardNew(v)
    \/ \E v \in StandardInputs, f \in AllFlags : DoStandardWithFlags(v, f)
    \/ \E v \in ExtendedInputs : DoExtendedNew(v)
    \/ \E v \in ExtendedInputs, f \in AllFlags : DoExtendedWithFlags(v, f)
    \/ \E f \in AllFlags : DoSetFlags(f)
    \/ \E fn \in FlagFns : DoMapFlags(fn)
    \/ DoAsExtendedId
    \/ DoAsStandardId
    \/ DoFilterNone
    \/ DoFilterAny
    \/ DoFilterFromIdentity
    \/ \E end \in Ids : DoFilterRange(end)
    \/ \E x \in Ids : DoMatches(x)

Spec == Init /\ [][Next]_vars

---------------------------------------------------------------------------
(* Sanity: the identifiers handed to Filter::range and Filter::matches are  *)
(* exactly the ones the identifier operations produce.                      *)

IdsAreReachable == id.some => id.val \in Ids

---------------------------------------------------------------------------
(* Shorthands for the claims. *)

Probed(name) == ctor = name /\ probe.some

X == probe.val.x
Matched == probe.val.matched

\* The arguments of Filter::range(start, end) as called by DoFilterRange.
Start == id.val
End == other.val

\* 2^k
RECURSIVE Pow2(_)
Pow2(k) == IF k = 0 THEN 1 ELSE 2 * Pow2(k - 1)

SameModeAndFlags(a, b) == a.variant = b.variant /\ Id_flags(a) = Id_flags(b)

HasAllFlags(i) == Id_flags(i) = Flags_all

---------------------------------------------------------------------------
---------------------------------------------------------------------------
(* C2: Filter::any() matches every identifier, in either addressing mode,  *)
(* with any raw value and any combination of flags.                        *)
C2_AnyMatchesAll == Probed("Filter::any") => Matched

\* Filter::any() was asked about the largest extended identifier with all flags set.
C2_Witness ==
    /\ Probed("Filter::any")
    /\ X.variant = "Extended"
    /\ Id_as_raw(X) = ExtendedId_MAX_raw
    /\ HasAllFlags(X)
    /\ Matched

---------------------------------------------------------------------------
(* C3: Filter::from_identity(id) matches x if and only if x has the same   *)
(* addressing mode, the same raw value and the same flags as id.           *)
C3_FromIdentityExact ==
    Probed("Filter::from_identity") => (Matched <=> X = id.val)

---------------------------------------------------------------------------
(* C4: Filter::range(start, end) matches every x that has the addressing   *)
(* mode and flags of the lower bound and a raw value within                *)
(* [low.as_raw(), high.as_raw()].                                          *)
Low == IF Id_as_raw(Start) > Id_as_raw(End) THEN End ELSE Start
High == IF Id_as_raw(Start) > Id_as_raw(End) THEN Start ELSE End

InRange(x) == Id_as_raw(Low) <= Id_as_raw(x) /\ Id_as_raw(x) <= Id_as_raw(High)

C4_RangeComplete ==
    (Probed("Filter::range") /\ SameModeAndFlags(X, Low) /\ InRange(X)) => Matched

---------------------------------------------------------------------------
(* C5: Filter::range(start, end) rejects every x whose raw value is below  *)
(* the smaller or above the larger of the two raw values.                  *)
C5_RangeRejectsOutside ==
    (Probed("Filter::range") /\ ~InRange(X)) => ~Matched

---------------------------------------------------------------------------
(* C6: Filter::range(start, end) and Filter::range(end, start) accept the  *)
(* same identifiers, for any two arguments.                                *)
C6_RangeOrderIndependent ==
    Probed("Filter::range") =>
        (Matched <=> Filter_matches(Filter_range(End, Start), X))

---------------------------------------------------------------------------
(* C7: on a bit-aligned block (low.as_raw() a multiple of 2^k, high.as_raw() *)
(* = low.as_raw() + 2^k - 1, low and high of the same mode and flags)      *)
(* Filter::range(low, high) matches x if and only if x's raw value lies in *)
(* the block and x's flag bits equal those of low; and the documented      *)
(* block, range(Standard 0x7E0, Standard 0x7EF), matches the flag-less     *)
(* standard identifiers 0x7E0..0x7EF and rejects 0x7DF, 0x7F0 and the      *)
(* extended 0x7E8.                                                         *)
AlignedBlock(low, high) ==
    /\ SameModeAndFlags(low, high)
    /\ \E k \in 0..29 :
          /\ Id_as_raw(low) % Pow2(k) = 0
          /\ Id_as_raw(high) = Id_as_raw(low) + Pow2(k) - 1

DocumentedBlock ==
    LET std(v) == Id_Standard(StandardId_new(v).val)
        f == Filter_range(std(2016), std(2031))
    IN  /\ \A v \in 2016..2031 : Filter_matches(f, std(v))
        /\ ~Filter_matches(f, std(2015))
        /\ ~Filter_matches(f, std(2032))
        /\ ~Filter_matches(f, Id_Extended(ExtendedId_new(2024).val))

C7_RangeExactOnAlignedBlocks ==
    /\ (Probed("Filter::range") /\ AlignedBlock(Start, End)) =>
          (Matched <=> (InRange(X) /\ Id_flags(X) = Id_flags(Start)))
    /\ call.op = "Filter::range" => DocumentedBlock

\* range over a block of more than one identifier was asked about an
\* identifier inside the block, of the other addressing mode, and rejected it.
C7_Witness ==
    /\ Probed("Filter::range")
    /\ AlignedBlock(Start, End)
    /\ Id_as_raw(Start) < Id_as_raw(End)
    /\ InRange(X)
    /\ X.variant # Start.variant
    /\ ~Matched

---------------------------------------------------------------------------
(* C8: StandardId::new / with_flags return a value if and only if          *)
(* v <= 0x7FF, ExtendedId::new / with_flags if and only if v <= 0x1FFFFFFF; *)
(* on success as_raw() is v, new() gives empty flags for a StandardId and  *)
(* EXTENDED alone for an ExtendedId; out of range the result is None.      *)
C8_ConstructionRangeChecked ==
    /\ call.op \in {"StandardId::new", "StandardId::with_flags"} =>
          /\ id.some <=> call.v <= 2047
          /\ id.some => id.val.variant = "Standard" /\ Id_as_raw(id.val) = call.v
    /\ call.op \in {"ExtendedId::new", "ExtendedId::with_flags"} =>
          /\ id.some <=> call.v <= 536870911
          /\ id.some => id.val.variant = "Extended" /\ Id_as_raw(id.val) = call.v
    /\ (call.op = "StandardId::new" /\ id.some) => Id_flags(id.val) = Flags_empty
    /\ (call.op = "ExtendedId::new" /\ id.some) => Id_flags(id.val) = EXTENDED

\* ExtendedId::new accepted the largest legal value.
C8_Witness ==
    /\ call.op = "ExtendedId::new"
    /\ call.v = 536870911
    /\ id.some

---------------------------------------------------------------------------
(* C9: a StandardId never carries the EXTENDED flag, whatever sequence of  *)
(* public operations produced it.                                          *)
C9_StandardNeverExtended ==
    (id.some /\ id.val.variant = "Standard") =>
        ~Flags_contains(Id_flags(id.val), EXTENDED)

---------------------------------------------------------------------------
(* C10: an ExtendedId always carries the EXTENDED flag, whatever sequence  *)
(* of public operations produced it.                                       *)
C10_ExtendedAlwaysExtended ==
    (id.some /\ id.val.variant = "Extended") =>
        Flags_contains(Id_flags(id.val), EXTENDED)

\* set_flags with the empty flag set was applied to an extended identifier.
C10_Witness ==
    /\ call.op = "set_flags"
    /\ call.f = Flags_empty
    /\ id.some
    /\ id.val.variant = "Extended"

---------------------------------------------------------------------------
(* The ordering of identifiers (id.rs).                                     *)

\* The ordering of two unsigned integers, as u16/u32::partial_cmp gives it.
Cmp(a, b) == IF a < b THEN "Less" ELSE IF a > b THEN "Greater" ELSE "Equal"

\* IdentifierFlags is a bitflags! struct over u32; it is ordered by its bits.
IdentifierFlags_partial_cmp(a, b) ==
    IF a.hi # b.hi THEN Cmp(a.hi, b.hi) ELSE Cmp(a.lo, b.lo)

\* A faulty variant of the derived ordering: the identifier field alone.
StandardId_partial_cmp_RawOnly(a, b) == Cmp(a.identifier, b.identifier)

\* #[derive(PartialOrd)] on StandardId: the fields in declaration order,
\* `identifier` first, then `flags`.
StandardId_partial_cmp(a, b) ==
    IF Cmp(a.identifier, b.identifier) # "Equal"
    THEN Cmp(a.identifier, b.identifier)
    ELSE IdentifierFlags_partial_cmp(a.flags, b.flags)

\* #[derive(PartialOrd)] on ExtendedId: `identifier` first, then `flags`.
ExtendedId_partial_cmp(a, b) ==
    IF Cmp(a.identifier, b.identifier) # "Equal"
    THEN Cmp(a.identifier, b.identifier)
    ELSE IdentifierFlags_partial_cmp(a.flags, b.flags)

\* A faulty variant of Id::partial_cmp: mixed variants compared by raw value.
Id_partial_cmp_ByRaw(self, o) ==
    CASE self.variant = "Standard" /\ o.variant = "Standard" ->
            StandardId_partial_cmp(self.v, o.v)
      [] self.variant = "Extended" /\ o.variant = "Extended" ->
            ExtendedId_partial_cmp(self.v, o.v)
      [] OTHER -> Cmp(Id_as_raw(self), Id_as_raw(o))

\* impl PartialOrd for Id (the result is always Some(ordering)).
Id_partial_cmp(self, o) ==
    CASE self.variant = "Standard" /\ o.variant = "Standard" ->
            StandardId_partial_cmp(self.v, o.v)
      [] self.variant = "Standard" /\ o.variant = "Extended" -> "Less"
      [] self.variant = "Extended" /\ o.variant = "Standard" -> "Greater"
      [] self.variant = "Extended" /\ o.variant = "Extended" ->
            ExtendedId_partial_cmp(self.v, o.v)

\* The comparison operators PartialOrd derives from partial_cmp.
Id_lt(a, b) == Id_partial_cmp(a, b) = "Less"
Id_gt(a, b) == Id_partial_cmp(a, b) = "Greater"
Id_le(a, b) == Id_partial_cmp(a, b) \in {"Less", "Equal"}
Id_ge(a, b) == Id_partial_cmp(a, b) \in {"Greater", "Equal"}

\* The caller holds two identifiers ...
InitOrd ==
    /\ id \in {Some(i) : i \in Ids}
    /\ other \in {Some(i) : i \in Ids}
    /\ call = Call("start", 0, Flags_empty)
    /\ filter = None
    /\ ctor = "-"
    /\ probe = None
    /\ addr = None
    /\ toggles = <<>>

\* ... and compares them: id.partial_cmp(&other), with the four operators.
DoPartialCmp ==
    /\ call.op = "start"
    /\ call' = Call("Id::partial_cmp", 0, Flags_empty)
    /\ probe' = Some([ord |-> Id_partial_cmp(id.val, other.val),
                      lt |-> Id_lt(id.val, other.val),
                      gt |-> Id_gt(id.val, other.val),
                      le |-> Id_le(id.val, other.val),
                      ge |-> Id_ge(id.val, other.val)])
    /\ UNCHANGED <<id, other, filter, ctor, addr, toggles>>

NextOrd == DoPartialCmp

SpecOrd == InitOrd /\ [][NextOrd]_vars

Compared == call.op = "Id::partial_cmp"

---------------------------------------------------------------------------
(* C11: every standard identifier orders before every extended one:        *)
(* Id::Standard(a) < Id::Extended(b) and Id::Extended(b) > Id::Standard(a), *)
(* whatever their raw values and flags.                                     *)
C11_StandardBeforeExtended ==
    /\ (Compared /\ id.val.variant = "Standard" /\ other.val.variant = "Extended")
          => (probe.val.lt /\ ~probe.val.gt /\ probe.val.ord = "Less")
    /\ (Compared /\ id.val.variant = "Extended" /\ other.val.variant = "Standard")
          => (probe.val.gt /\ ~probe.val.lt /\ probe.val.ord = "Greater")

\* A standard identifier of larger raw value than the extended one, more
\* flags included, was compared with it.
C11_Witness ==
    /\ Compared
    /\ id.val.variant = "Standard"
    /\ other.val.variant = "Extended"
    /\ Id_as_raw(id.val) > Id_as_raw(other.val)
    /\ Id_flags(id.val) = Flags_all
    /\ probe.val.lt

---------------------------------------------------------------------------
(* C12 as stated: within one variant the ordering of two Ids is the        *)
(* ordering of their raw values and nothing else, so two Ids of the same   *)
(* variant and raw value compare Equal whatever their flags.               *)
C12_OrderByRawOnly ==
    (Compared /\ id.val.variant = other.val.variant)
        => probe.val.ord = Cmp(Id_as_raw(id.val), Id_as_raw(other.val))

(* C12: within one variant the ordering of two Ids is the ordering of      *)
(* their raw values when these differ; when the raw values are equal it is *)
(* the ordering of their flag bits, so two Ids of the same variant and raw *)
(* value compare Equal only when their flags are equal too.                *)
C12_OrderByRawThenFlags ==
    (Compared /\ id.val.variant = other.val.variant)
        => /\ Id_as_raw(id.val) # Id_as_raw(other.val)
                => probe.val.ord = Cmp(Id_as_raw(id.val), Id_as_raw(other.val))
           /\ Id_as_raw(id.val) = Id_as_raw(other.val)
                => /\ probe.val.ord = Cmp(Id_flags(id.val).hi, Id_flags(other.val).hi)
                   /\ (probe.val.ord = "Equal") <=> (id.val = other.val)

\* Two standard identifiers of one raw value and different flags were compared.
C12_Witness ==
    /\ Compared
    /\ id.val.variant = "Standard"
    /\ other.val.variant = "Standard"
    /\ Id_as_raw(id.val) = Id_as_raw(other.val)
    /\ Id_flags(id.val) # Id_flags(other.val)
    /\ probe.val.ord # "Equal"

---------------------------------------------------------------------------
(* OBD-II addresses (obd.rs).                                               *)

\* The ECU numbers the caller tries in extended addressing are 0..MaxEcu.
MaxEcu == 2

\* The reciprocal-address calls made in a row after one from_id.
MaxHops == 2

\* const fn standard_id / extended_id: the value is known to be in range.
standard_id(v) == StandardId_new(v).val
extended_id(v) == ExtendedId_new(v).val

OBD_BROADCAST_ADDR_STANDARD == Id_Standard(standard_id(2015))         \* 0x7DF
OBD_BROADCAST_ADDR_EXTENDED == Id_Extended(extended_id(417018865))    \* 0x18DB33F1
OBD_REQ_ADDR_START_STANDARD == Id_Standard(standard_id(2016))         \* 0x7E0
OBD_REQ_ADDR_END_STANDARD == Id_Standard(standard_id(2023))           \* 0x7E7
OBD_RESP_ADDR_START_STANDARD == Id_Standard(standard_id(2024))        \* 0x7E8
OBD_RESP_ADDR_END_STANDARD == Id_Standard(standard_id(2031))          \* 0x7EF
OBD_REQ_ADDR_START_EXTENDED == Id_Extended(extended_id(416940273))    \* 0x18DA00F1
OBD_REQ_ADDR_END_EXTENDED == Id_Extended(extended_id(417005553))      \* 0x18DAFFF1
OBD_RESP_ADDR_START_EXTENDED == Id_Extended(extended_id(417001728))   \* 0x18DAF100
OBD_RESP_ADDR_END_EXTENDED == Id_Extended(extended_id(417001983))     \* 0x18DAF1FF
OBD_REQ_RESP_ADDR_OFFSET_STANDARD == 8

\* u32 `>> 8` and `<< 8`
WShr8(x) == W(0, x.hi * 2097152 + (x.lo \div 256))
WShl8(x) == W((x.lo \div 2097152) % 8, (x.lo % 2097152) * 256)

\* A word whose top three bits are clear, as a natural.
FromU32(x) == x.hi * TwoPow29 + x.lo

\* A faulty variant of swap_eid_target_source: 0xFFFFFF00 for 0xFFFF0000.
swap_eid_target_source_KeepTarget(eid_raw) ==
    FromU32(WOr(WOr(WAnd(ToU32(eid_raw), W(7, 536870656)),
                    WShr8(WAnd(ToU32(eid_raw), W(0, 65280)))),
                WShl8(WAnd(ToU32(eid_raw), W(0, 255)))))

\* eid_raw & 0xFFFF0000 | (eid_raw & 0x0000FF00) >> 8 | (eid_raw & 0x000000FF) << 8
swap_eid_target_source(eid_raw) ==
    FromU32(WOr(WOr(WAnd(ToU32(eid_raw), W(7, 536805376)),
                    WShr8(WAnd(ToU32(eid_raw), W(0, 65280)))),
                WShl8(WAnd(ToU32(eid_raw), W(0, 255)))))

DiagnosticRequestAddress(i) == [kind |-> "Request", id |-> i]
DiagnosticResponseAddress(i) == [kind |-> "Response", id |-> i]

DiagnosticRequestAddress_from_id(i) ==
    LET is_standard == Id_ge(i, OBD_REQ_ADDR_START_STANDARD)
                       /\ Id_le(i, OBD_REQ_ADDR_END_STANDARD)
        is_extended == Id_ge(i, OBD_REQ_ADDR_START_EXTENDED)
                       /\ Id_le(i, OBD_REQ_ADDR_END_EXTENDED)
    IN  IF is_standard \/ is_extended
        THEN Some(DiagnosticRequestAddress(i))
        ELSE None

DiagnosticResponseAddress_from_id(i) ==
    LET is_standard == Id_ge(i, OBD_RESP_ADDR_START_STANDARD)
                       /\ Id_le(i, OBD_RESP_ADDR_END_STANDARD)
        is_extended == Id_ge(i, OBD_RESP_ADDR_START_EXTENDED)
                       /\ Id_le(i, OBD_RESP_ADDR_END_EXTENDED)
    IN  IF is_standard \/ is_extended
        THEN Some(DiagnosticResponseAddress(i))
        ELSE None

\* DiagnosticRequestAddress::id / DiagnosticResponseAddress::id
Address_id(self) == self.id

\* The two `unwrap()`s: None stands for the panic of unwrap on None.
UnwrapStandard(opt, wrap) ==
    IF opt.some THEN Some([kind |-> wrap, id |-> Id_Standard(opt.val)]) ELSE None
UnwrapExtended(opt, wrap) ==
    IF opt.some THEN Some([kind |-> wrap, id |-> Id_Extended(opt.val)]) ELSE None

\* DiagnosticRequestAddress::into_response_address
into_response_address(self) ==
    IF self.id.variant = "Standard"
    THEN UnwrapStandard(
            StandardId_new(StandardId_as_raw(self.id.v)
                           + OBD_REQ_RESP_ADDR_OFFSET_STANDARD), "Response")
    ELSE UnwrapExtended(
            ExtendedId_new(swap_eid_target_source(ExtendedId_as_raw(self.id.v))),
            "Response")

\* A faulty variant of into_request_address: the operands of the subtraction
\* exchanged, so it goes below zero for every real address.
into_request_address_Reversed(self) ==
    IF self.id.variant = "Standard"
    THEN IF OBD_REQ_RESP_ADDR_OFFSET_STANDARD < StandardId_as_raw(self.id.v)
         THEN None
         ELSE UnwrapStandard(
                StandardId_new(OBD_REQ_RESP_ADDR_OFFSET_STANDARD
                               - StandardId_as_raw(self.id.v)), "Request")
    ELSE UnwrapExtended(
            ExtendedId_new(swap_eid_target_source(ExtendedId_as_raw(self.id.v))),
            "Request")

\* DiagnosticResponseAddress::into_request_address.  A u16 subtraction below
\* zero panics in a checked build and wraps to a value StandardId::new
\* rejects in an unchecked one, so either way the call panics.
into_request_address(self) ==
    IF self.id.variant = "Standard"
    THEN IF StandardId_as_raw(self.id.v) < OBD_REQ_RESP_ADDR_OFFSET_STANDARD
         THEN None
         ELSE UnwrapStandard(
                StandardId_new(StandardId_as_raw(self.id.v)
                               - OBD_REQ_RESP_ADDR_OFFSET_STANDARD), "Request")
    ELSE UnwrapExtended(
            ExtendedId_new(swap_eid_target_source(ExtendedId_as_raw(self.id.v))),
            "Request")

\* A faulty variant of DiagnosticResponseFilter::standard: the request band.
DiagnosticResponseFilter_standard_Request ==
    Filter_range(OBD_REQ_ADDR_START_STANDARD, OBD_REQ_ADDR_END_STANDARD)

DiagnosticResponseFilter_standard ==
    Filter_range(OBD_RESP_ADDR_START_STANDARD, OBD_RESP_ADDR_END_STANDARD)

DiagnosticResponseFilter_extended ==
    Filter_range(OBD_RESP_ADDR_START_EXTENDED, OBD_RESP_ADDR_END_EXTENDED)

\* The raw values the caller tries: both standard bands with a neighbour on
\* each side, and in extended addressing the request and response addresses
\* of ECUs 0..MaxEcu and 0xFF, the neighbours of the band ends, the
\* broadcast address and a few values far from the bands.
ObdStandardRaws == 2015..2032

ObdExtendedRaws ==
    {416940273 + 256 * n : n \in 0..MaxEcu}
    \cup {417001728 + n : n \in 0..MaxEcu}
    \cup {416940272, 416940274, 417005553, 417005554,
          417001727, 417001794, 417001983, 417001984,
          417018865, 0, 2024, ExtendedId_MAX_raw}

ObdIds ==
    {Id_Standard(StandardId_set_flags(StandardId_new(v).val, f)) :
        v \in ObdStandardRaws, f \in AllFlags}
    \cup {Id_Extended(ExtendedId_with_flags(v, f).val) :
        v \in ObdExtendedRaws, f \in AllFlags}

DoRequestFromId(x) ==
    /\ call.op = "start"
    /\ id' = Some(x)
    /\ addr' = DiagnosticRequestAddress_from_id(x)
    /\ call' = Call("DiagnosticRequestAddress::from_id", 0, Flags_empty)
    /\ UNCHANGED <<filter, ctor, other, probe, toggles>>

DoResponseFromId(x) ==
    /\ call.op = "start"
    /\ id' = Some(x)
    /\ addr' = DiagnosticResponseAddress_from_id(x)
    /\ call' = Call("DiagnosticResponseAddress::from_id", 0, Flags_empty)
    /\ UNCHANGED <<filter, ctor, other, probe, toggles>>

\* call.v counts the reciprocal-address calls made since from_id.
DoIntoResponseAddress ==
    /\ addr.some
    /\ addr.val.kind = "Request"
    /\ call.v < MaxHops
    /\ addr' = into_response_address(addr.val)
    /\ call' = Call("into_response_address", call.v + 1, Flags_empty)
    /\ UNCHANGED <<id, filter, ctor, other, probe, toggles>>

DoIntoRequestAddress ==
    /\ addr.some
    /\ addr.val.kind = "Response"
    /\ call.v < MaxHops
    /\ addr' = into_request_address(addr.val)
    /\ call' = Call("into_request_address", call.v + 1, Flags_empty)
    /\ UNCHANGED <<id, filter, ctor, other, probe, toggles>>

DoResponseFilterStandard ==
    /\ call.op = "start"
    /\ Built("DiagnosticResponseFilter::standard",
             DiagnosticResponseFilter_standard, None)

DoResponseFilterExtended ==
    /\ call.op = "start"
    /\ Built("DiagnosticResponseFilter::extended",
             DiagnosticResponseFilter_extended, None)

NextObd ==
    \/ \E x \in ObdIds : DoRequestFromId(x)
    \/ \E x \in ObdIds : DoResponseFromId(x)
    \/ DoIntoResponseAddress
    \/ DoIntoRequestAddress
    \/ DoResponseFilterStandard
    \/ DoResponseFilterExtended
    \/ \E x \in ObdIds : DoMatches(x)

SpecObd == Init /\ [][NextObd]_vars

---------------------------------------------------------------------------
(* Shorthands for the OBD claims. *)

AskedRequest == call.op = "DiagnosticRequestAddress::from_id"
AskedResponse == call.op = "DiagnosticResponseAddress::from_id"

\* The bands of a mode, in raw values.
InRequestBand(i) ==
    \/ i.variant = "Standard" /\ Id_as_raw(i) \in 2016..2023
    \/ i.variant = "Extended" /\ Id_as_raw(i) \in 416940273..417005553

InResponseBand(i) ==
    \/ i.variant = "Standard" /\ Id_as_raw(i) \in 2024..2031
    \/ i.variant = "Extended" /\ Id_as_raw(i) \in 417001728..417001983

\* The number of reciprocal-address calls made since from_id.
Hops == IF call.op \in {"into_response_address", "into_request_address"}
        THEN call.v ELSE 0

---------------------------------------------------------------------------
(* C13: DiagnosticRequestAddress::from_id(x) returns a value exactly when  *)
(* x is standard with raw value in [0x7E0, 0x7E7] or extended with raw     *)
(* value in [0x18DA00F1, 0x18DAFFF1], and DiagnosticResponseAddress::      *)
(* from_id(x) exactly when x is standard in [0x7E8, 0x7EF] or extended in  *)
(* [0x18DAF100, 0x18DAF1FF]: mode and raw value decide, whatever the flags.*)
C13_FromIdByModeAndRaw ==
    /\ AskedRequest => (addr.some <=> InRequestBand(id.val))
    /\ AskedResponse => (addr.some <=> InResponseBand(id.val))

---------------------------------------------------------------------------
(* C14: every diagnostic address wraps an Id inside the band of its mode:  *)
(* a DiagnosticResponseAddress got from from_id, or from                   *)
(* into_response_address on a request address from_id returned, has id()   *)
(* in the response band; a DiagnosticRequestAddress got from from_id or    *)
(* from into_request_address has id() in the request band.                 *)
C14_AddressInsideBand ==
    (addr.some /\ Hops <= 1) =>
        /\ addr.val.kind = "Response" => InResponseBand(Address_id(addr.val))
        /\ addr.val.kind = "Request" => InRequestBand(Address_id(addr.val))

---------------------------------------------------------------------------
(* C15: standard pairing is an offset of 8 both ways: for every standard   *)
(* Id r with raw value in [0x7E0, 0x7E7], DiagnosticRequestAddress::       *)
(* from_id(r) gives an address whose into_response_address().id() is a     *)
(* standard Id of raw value r + 8 that DiagnosticResponseAddress::from_id  *)
(* accepts, and into_request_address() on that gives raw value r again.    *)
C15_StandardPairingOffset8 ==
    (id.some /\ id.val.variant = "Standard" /\ Id_as_raw(id.val) \in 2016..2023) =>
        /\ AskedRequest => addr.some
        /\ (call.op = "into_response_address" /\ Hops = 1) =>
              /\ addr.some
              /\ Address_id(addr.val).variant = "Standard"
              /\ Id_as_raw(Address_id(addr.val)) = Id_as_raw(id.val) + 8
              /\ DiagnosticResponseAddress_from_id(Address_id(addr.val)).some
        /\ (call.op = "into_request_address" /\ Hops = 2) =>
              /\ addr.some
              /\ Address_id(addr.val).variant = "Standard"
              /\ Id_as_raw(Address_id(addr.val)) = Id_as_raw(id.val)

---------------------------------------------------------------------------
(* C16: swap_eid_target_source(v) keeps bits 16-28 of v, exchanges bits    *)
(* 8-15 with bits 0-7 and is its own inverse for every 29-bit v;           *)
(* swap_eid_target_source(0x18DAF142) = 0x18DA42F1; so for every extended  *)
(* request address q, q.into_response_address().into_request_address() has *)
(* the raw value of q.                                                     *)
C16_SwapSelfInverse ==
    (id.some /\ id.val.variant = "Extended") =>
        LET v == Id_as_raw(id.val)
            s == swap_eid_target_source(v)
        IN  /\ s \div 65536 = v \div 65536
            /\ (s \div 256) % 256 = v % 256
            /\ s % 256 = (v \div 256) % 256
            /\ swap_eid_target_source(s) = v
            /\ v = 417001794 => s = 416957169
            /\ (addr.some /\ Hops = 1) => Id_as_raw(Address_id(addr.val)) = s
            /\ (call.op = "into_request_address" /\ Hops = 2) =>
                  /\ addr.some
                  /\ addr.val.kind = "Request"
                  /\ Id_as_raw(Address_id(addr.val)) = v

\* The request address of ECU 1, 0x18DA01F1, went to its response address
\* 0x18DAF101 and back.
C16_Witness ==
    /\ call.op = "into_request_address"
    /\ Hops = 2
    /\ id.some
    /\ id.val.variant = "Extended"
    /\ Id_as_raw(id.val) = 416940273 + 256
    /\ addr.some
    /\ Id_as_raw(Address_id(addr.val)) = Id_as_raw(id.val)

---------------------------------------------------------------------------
(* C17 as stated: DiagnosticResponseFilter::standard().matches(x) exactly  *)
(* when x is a standard identifier DiagnosticResponseAddress::from_id      *)
(* accepts, and DiagnosticResponseFilter::extended().matches(x) exactly    *)
(* when x is an extended identifier it accepts.                            *)
C17_ResponseFilterIsFromId ==
    /\ Probed("DiagnosticResponseFilter::standard") =>
          (Matched <=> /\ X.variant = "Standard"
                       /\ DiagnosticResponseAddress_from_id(X).some)
    /\ Probed("DiagnosticResponseFilter::extended") =>
          (Matched <=> /\ X.variant = "Extended"
                       /\ DiagnosticResponseAddress_from_id(X).some)

(* C17: DiagnosticResponseFilter::standard().matches(x) exactly when x is  *)
(* a standard identifier without any flag that DiagnosticResponseAddress:: *)
(* from_id accepts, and DiagnosticResponseFilter::extended().matches(x)    *)
(* exactly when x is an extended identifier with no flag but EXTENDED that *)
(* it accepts.                                                             *)
C17_ResponseFilterIsFlaglessFromId ==
    /\ Probed("DiagnosticResponseFilter::standard") =>
          (Matched <=> /\ X.variant = "Standard"
                       /\ Id_flags(X) = Flags_empty
                       /\ DiagnosticResponseAddress_from_id(X).some)
    /\ Probed("DiagnosticResponseFilter::extended") =>
          (Matched <=> /\ X.variant = "Extended"
                       /\ Id_flags(X) = EXTENDED
                       /\ DiagnosticResponseAddress_from_id(X).some)

\* The standard filter was asked about 0x7E8 with REMOTE, which from_id
\* accepts, and did not match it.
C17_Witness ==
    /\ Probed("DiagnosticResponseFilter::standard")
    /\ X.variant = "Standard"
    /\ Id_as_raw(X) = 2024
    /\ Id_flags(X) = REMOTE
    /\ DiagnosticResponseAddress_from_id(X).some
    /\ ~Matched

---------------------------------------------------------------------------
(* The remaining Filter constructors and the six toggles (filter.rs).      *)

\* How many toggles the caller applies to one filter.
MaxToggles == 2

Mask_new(mask) == mask

Filter_new(i, mask) == [id |-> i, mask |-> mask]

Filter_data_frames_only ==
    [id |-> Id_Standard(StandardId_ZERO), mask |-> ERROR]

\* A faulty variant of Filter::error_frames_only: set_flags(ERROR) left out.
Filter_error_frames_only_Unflagged ==
    [id |-> Id_Standard(StandardId_ZERO), mask |-> ERROR]

Filter_error_frames_only ==
    [id |-> Id_Standard(StandardId_set_flags(StandardId_ZERO, ERROR)), mask |-> ERROR]

Filter_allow_extended_frames(self) ==
    [id |-> self.id, mask |-> WOr(self.mask, EXTENDED)]

\* A faulty variant of Filter::disallow_extended_frames: REMOTE cleared.
Filter_disallow_extended_frames_Remote(self) ==
    [id |-> self.id, mask |-> WAnd(self.mask, WNot(REMOTE))]

Filter_disallow_extended_frames(self) ==
    [id |-> self.id, mask |-> WAnd(self.mask, WNot(EXTENDED))]

\* A faulty variant of Filter::allow_rtr_frames: ERROR set.
Filter_allow_rtr_frames_Error(self) ==
    [id |-> self.id, mask |-> WOr(self.mask, ERROR)]

Filter_allow_rtr_frames(self) ==
    [id |-> self.id, mask |-> WOr(self.mask, REMOTE)]

Filter_disallow_rtr_frames(self) ==
    [id |-> self.id, mask |-> WAnd(self.mask, WNot(REMOTE))]

Filter_allow_error_frames(self) ==
    [id |-> self.id, mask |-> WOr(self.mask, ERROR)]

Filter_disallow_error_frames(self) ==
    [id |-> self.id, mask |-> WAnd(self.mask, WNot(ERROR))]

\* The u32 values the caller hands to Mask::new: every combination of the
\* three flag bits over a clear, a mixed and a full identifier part.
MaskInputs == {W(h, l) : h \in 0..7, l \in {0, 5, EFF_MASK}}

\* The `end` arguments the caller hands to Filter::range before toggling.
RangeEnds == {i \in Ids : Id_flags(i) \in {Flags_empty, EXTENDED}}

DoFilterNew(mask) ==
    /\ id.some
    /\ Built("Filter::new", Filter_new(id.val, Mask_new(mask)), None)

DoFilterDataFramesOnly ==
    Built("Filter::data_frames_only", Filter_data_frames_only, None)

DoFilterErrorFramesOnly ==
    Built("Filter::error_frames_only", Filter_error_frames_only, None)

\* A toggle consumes the filter and leaves the new one in its place; the
\* call and the filter it was made on are appended to `toggles`.
Toggled(name, f) ==
    /\ filter.some
    /\ ~probe.some
    /\ Len(toggles) < MaxToggles
    /\ filter' = Some(f)
    /\ toggles' = Append(toggles, [op |-> name, before |-> filter.val])
    /\ call' = Call(name, 0, Flags_empty)
    /\ UNCHANGED <<id, ctor, other, probe, addr>>

DoAllowExtendedFrames ==
    Toggled("allow_extended_frames", Filter_allow_extended_frames(filter.val))

DoDisallowExtendedFrames ==
    Toggled("disallow_extended_frames", Filter_disallow_extended_frames(filter.val))

DoAllowRtrFrames ==
    Toggled("allow_rtr_frames", Filter_allow_rtr_frames(filter.val))

DoDisallowRtrFrames ==
    Toggled("disallow_rtr_frames", Filter_disallow_rtr_frames(filter.val))

DoAllowErrorFrames ==
    Toggled("allow_error_frames", Filter_allow_error_frames(filter.val))

DoDisallowErrorFrames ==
    Toggled("disallow_error_frames", Filter_disallow_error_frames(filter.val))

NextToggle ==
    \/ \E v \in StandardInputs : DoStandardNew(v)
    \/ \E v \in ExtendedInputs : DoExtendedNew(v)
    \/ DoFilterNone
    \/ DoFilterAny
    \/ DoFilterFromIdentity
    \/ \E end \in RangeEnds : DoFilterRange(end)
    \/ \E mask \in MaskInputs : DoFilterNew(mask)
    \/ DoFilterDataFramesOnly
    \/ DoFilterErrorFramesOnly
    \/ DoAllowExtendedFrames
    \/ DoDisallowExtendedFrames
    \/ DoAllowRtrFrames
    \/ DoDisallowRtrFrames
    \/ DoAllowErrorFrames
    \/ DoDisallowErrorFrames

SpecToggle == Init /\ [][NextToggle]_vars

\* Filter::data_frames_only / error_frames_only asked about any identifier.
NextFrames ==
    \/ DoFilterDataFramesOnly
    \/ DoFilterErrorFramesOnly
    \/ \E x \in Ids : DoMatches(x)

SpecFrames == Init /\ [][NextFrames]_vars

---------------------------------------------------------------------------
(* Shorthands for the toggle claims. *)

\* Whether a mask has the bit of the flag b set.
MaskHas(mask, b) == WAnd(mask, b) = b

\* The flag a toggle is about, and whether it sets or clears the bit.
ToggleFlag(op) ==
    CASE op \in {"allow_extended_frames", "disallow_extended_frames"} -> EXTENDED
      [] op \in {"allow_rtr_frames", "disallow_rtr_frames"} -> REMOTE
      [] op \in {"allow_error_frames", "disallow_error_frames"} -> ERROR

ToggleAllows(op) ==
    op \in {"allow_extended_frames", "allow_rtr_frames", "allow_error_frames"}

\* The filter the toggles started from.
Original == toggles[1].before

\* The toggles applied so far that are about the flag b.
TogglesOn(b) == {k \in 1..Len(toggles) : ToggleFlag(toggles[k].op) = b}

LastOn(b) == CHOOSE k \in TogglesOn(b) : \A j \in TogglesOn(b) : j <= k

\* The last two calls were f.allow_extended_frames().disallow_extended_frames().
AllowedThenDisallowed ==
    /\ Len(toggles) >= 2
    /\ toggles[Len(toggles) - 1].op = "allow_extended_frames"
    /\ toggles[Len(toggles)].op = "disallow_extended_frames"

\* The f of that round trip.
RoundTripFrom == toggles[Len(toggles) - 1].before

---------------------------------------------------------------------------
(* C18 as stated: for every Filter f, also one whose mask has the EXTENDED *)
(* bit set already, the EXTENDED bit of the mask of                        *)
(* f.allow_extended_frames().disallow_extended_frames() equals the         *)
(* EXTENDED bit of f's mask.                                               *)
C18_RoundTripRestoresBit ==
    AllowedThenDisallowed =>
        (MaskHas(filter.val.mask, EXTENDED) <=> MaskHas(RoundTripFrom.mask, EXTENDED))

(* C18: for every Filter f the EXTENDED bit of the mask of                 *)
(* f.allow_extended_frames().disallow_extended_frames() is clear, so it    *)
(* equals the EXTENDED bit of f's mask exactly when that bit was clear in  *)
(* f; the identifier and the other 31 mask bits are those of f.            *)
C18_RoundTripClearsBit ==
    AllowedThenDisallowed =>
        /\ ~MaskHas(filter.val.mask, EXTENDED)
        /\ (MaskHas(filter.val.mask, EXTENDED) <=> MaskHas(RoundTripFrom.mask, EXTENDED))
              <=> ~MaskHas(RoundTripFrom.mask, EXTENDED)
        /\ filter.val.id = RoundTripFrom.id
        /\ filter.val.mask = WAnd(RoundTripFrom.mask, WNot(EXTENDED))

\* Filter::none(), whose mask is Mask::ALL, went through the round trip and
\* lost the EXTENDED bit of its mask.
C18_Witness ==
    /\ ctor = "Filter::none"
    /\ Len(toggles) = 2
    /\ AllowedThenDisallowed
    /\ MaskHas(RoundTripFrom.mask, EXTENDED)
    /\ ~MaskHas(filter.val.mask, EXTENDED)

---------------------------------------------------------------------------
(* C19: each of the six toggles changes at most its own mask bit (bit 31   *)
(* EXTENDED, bit 30 REMOTE, bit 29 ERROR: set by the allow toggle, cleared *)
(* by the disallow one) and leaves the identifier and the other 31 mask    *)
(* bits alone;                                                             *)
(* after any sequence of toggles each flag bit of the mask is what the     *)
(* last toggle on that bit made it, or the original bit if there was none, *)
(* and the low 29 bits are the original ones.                              *)
C19_TogglesAreIndependent ==
    (Len(toggles) > 0) =>
        LET last == toggles[Len(toggles)]
        IN  /\ filter.val.id = last.before.id
            /\ filter.val.mask.lo = last.before.mask.lo
            /\ \A b \in {EXTENDED, REMOTE, ERROR} :
                  IF b = ToggleFlag(last.op)
                  THEN MaskHas(filter.val.mask, b) <=> ToggleAllows(last.op)
                  ELSE MaskHas(filter.val.mask, b) <=> MaskHas(last.before.mask, b)
            /\ filter.val.id = Original.id
            /\ filter.val.mask.lo = Original.mask.lo
            /\ \A b \in {EXTENDED, REMOTE, ERROR} :
                  IF TogglesOn(b) = {}
                  THEN MaskHas(filter.val.mask, b) <=> MaskHas(Original.mask, b)
                  ELSE MaskHas(filter.val.mask, b)
                          <=> ToggleAllows(toggles[LastOn(b)].op)

\* A filter with a mixed mask had REMOTE disallowed and then allowed again,
\* while its ERROR bit and low bits stayed.
C19_Witness ==
    /\ ctor = "Filter::new"
    /\ Len(toggles) = 2
    /\ toggles[1].op = "disallow_rtr_frames"
    /\ toggles[2].op = "allow_rtr_frames"
    /\ Original.mask = W(3, 5)
    /\ filter.val.mask = W(3, 5)

---------------------------------------------------------------------------
---------------------------------------------------------------------------
(* Frames (frame.rs): only the identifier of a frame matters here.         *)

Frame(i) == [id |-> i]

Frame_is_data_frame(self) ==
    ~Flags_intersects(Id_flags(self.id), Flags_union(ERROR, REMOTE))

Frame_is_remote_frame(self) == Flags_contains(Id_flags(self.id), REMOTE)

Frame_is_error_frame(self) == Flags_contains(Id_flags(self.id), ERROR)

---------------------------------------------------------------------------
(* C21: Filter::data_frames_only() matches only data frames: every Id x it *)
(* matches carries neither REMOTE nor ERROR, which is when                 *)
(* Frame::is_data_frame is true of a frame carrying x.                     *)
C21_DataFramesOnlyMatchesDataFrames ==
    (Probed("Filter::data_frames_only") /\ Matched) =>
        /\ ~Flags_contains(Id_flags(X), REMOTE)
        /\ ~Flags_contains(Id_flags(X), ERROR)
        /\ Frame_is_data_frame(Frame(X))

---------------------------------------------------------------------------
(* Using a filter: allowing extended frames, matching, and the conversion  *)
(* into a SocketCAN filter (filter.rs).                                     *)

\* impl Into<socketcan::CANFilter> for Filter: the two words handed to
\* socketcan::CANFilter::new, which keeps them as they are.
Filter_into_CANFilter(self) ==
    [can_id |-> WAnd(ToU32(Id_as_raw(self.id)), Id_flags(self.id)),
     can_mask |-> self.mask]

\* The rule a filter of two words applies to the 32-bit identifier word of
\* a message: <message identifier> & mask == <filter identifier> & mask.
CANFilter_accepts(cf, word) == WAnd(word, cf.can_mask) = WAnd(cf.can_id, cf.can_mask)

\* The 32-bit identifier word of an Id: its raw value with its flag bits.
IdWord(i) == WOr(ToU32(Id_as_raw(i)), Id_flags(i))

DoIntoCANFilter ==
    /\ filter.some
    /\ ~probe.some
    /\ probe' = Some(Filter_into_CANFilter(filter.val))
    /\ call' = Call("Filter::into", 0, Flags_empty)
    /\ UNCHANGED <<id, filter, ctor, other, addr, toggles>>

NextUse ==
    \/ \E v \in StandardInputs : DoStandardNew(v)
    \/ \E v \in ExtendedInputs : DoExtendedNew(v)
    \/ DoFilterNone
    \/ DoFilterAny
    \/ DoFilterFromIdentity
    \/ \E mask \in MaskInputs : DoFilterNew(mask)
    \/ DoFilterDataFramesOnly
    \/ DoFilterErrorFramesOnly
    \/ DoAllowExtendedFrames
    \/ \E x \in Ids : DoMatches(x)
    \/ DoIntoCANFilter

SpecUse == Init /\ [][NextUse]_vars

---------------------------------------------------------------------------
(* C22: allowing extended frames never removes an extended identifier from *)
(* the set a filter accepts: for every Filter f and every extended Id x,   *)
(* if f.matches(x) then f.allow_extended_frames().matches(x); so           *)
(* Filter::any().allow_extended_frames() matches every extended Id.        *)
C22_AllowExtendedKeepsExtended ==
    LET n == Len(toggles)
    IN  (/\ call.op = "Filter::matches"
         /\ n >= 1
         /\ toggles[n].op = "allow_extended_frames"
         /\ X.variant = "Extended"
         /\ Filter_matches(toggles[n].before, X)) => Matched

---------------------------------------------------------------------------
(* C23: converting a Filter into a socketcan filter re-encodes the same    *)
(* bits: the identifier word handed to socketcan::CANFilter::new is        *)
(* f.id.as_raw() | f.id.flags().bits(), the mask word is f's mask, and the *)
(* converted filter accepts exactly the identifier words f.matches accepts.*)
C23_SocketcanSameBits ==
    (call.op = "Filter::into") =>
        /\ probe.val.can_id = IdWord(filter.val.id)
        /\ probe.val.can_mask = filter.val.mask
        /\ \A x \in Ids :
              CANFilter_accepts(probe.val, IdWord(x)) <=> Filter_matches(filter.val, x)

---------------------------------------------------------------------------
(* C24: the pairing operations never panic on addresses got through the    *)
(* public API: from any address from_id returned, of any mode and flags,   *)
(* every alternating sequence of into_response_address and                 *)
(* into_request_address calls completes: no unwrap of StandardId::new or   *)
(* ExtendedId::new fails and raw + 8 / raw - 8 stay within u16.            *)
C24_PairingNeverPanics ==
    (call.op \in {"into_response_address", "into_request_address"}) =>
        /\ addr.some
        /\ Address_id(addr.val).variant = id.val.variant
        /\ Address_id(addr.val).variant = "Standard" =>
              /\ Id_as_raw(Address_id(addr.val)) >= OBD_REQ_RESP_ADDR_OFFSET_STANDARD
              /\ Id_as_raw(Address_id(addr.val)) + OBD_REQ_RESP_ADDR_OFFSET_STANDARD
                    <= StandardId_MAX_raw

\* A standard response address with flags, 0x7E8 with REMOTE, went to its
\* request address and on to the response address again.
C24_Witness ==
    /\ call.op = "into_response_address"
    /\ Hops = 2
    /\ id.some
    /\ id.val.variant = "Standard"
    /\ Id_as_raw(id.val) = 2024
    /\ Id_flags(id.val) = REMOTE
    /\ addr.some
    /\ Id_as_raw(Address_id(addr.val)) = 2024

---------------------------------------------------------------------------
(* The broadcast addresses (obd.rs).                                        *)

DiagnosticBroadcastAddress(i) == [kind |-> "Broadcast", id |-> i]

DiagnosticBroadcastAddress_standard ==
    DiagnosticBroadcastAddress(OBD_BROADCAST_ADDR_STANDARD)

DiagnosticBroadcastAddress_extended ==
    DiagnosticBroadcastAddress(OBD_BROADCAST_ADDR_EXTENDED)

---------------------------------------------------------------------------
(* C25: the request and response bands are disjoint: no Id x, standard or  *)
(* extended, with any flags, is accepted both by                           *)
(* DiagnosticRequestAddress::from_id and by DiagnosticResponseAddress::    *)
(* from_id, and neither accepts the identifier of                          *)
(* DiagnosticBroadcastAddress::standard() or ::extended().                 *)
C25_BandsDisjoint ==
    /\ (AskedRequest /\ addr.some) => ~DiagnosticResponseAddress_from_id(id.val).some
    /\ (AskedResponse /\ addr.some) => ~DiagnosticRequestAddress_from_id(id.val).some
    /\ ((AskedRequest \/ AskedResponse)
          /\ id.val \in {Address_id(DiagnosticBroadcastAddress_standard),
                         Address_id(DiagnosticBroadcastAddress_extended)})
       => ~addr.some

===========================================================================
